---- MODULE Spec2Model ----
(***************************************************************************)
(* Model of rumour_collation.py: the daily scheduled job that, for every   *)
(* configured subreddit, fetches posts and comments, annotates them with   *)
(* keyword flags, plots, counts company mentions, computes signal          *)
(* strengths and writes a report and CSV dumps.                            *)
(*                                                                         *)
(* Strings are sequences of one-character strings, so that split, strip,   *)
(* lower, substring search and the company regular expression are computed *)
(* as Python computes them.  Column names and file names are pairs         *)
(* <<fixed part, variable part>>.                                          *)
(***************************************************************************)
EXTENDS Integers, Sequences, FiniteSets, TLC

VARIABLES
    names,            \* config['Subreddits']['names'], a string
    subreddit_names,  \* main: the list produced by split(',')
    idx,              \* main: position of the for loop in subreddit_names
    runs,             \* number of times the scheduler has invoked main
    pc,               \* control position of the process
    now,              \* the wall clock, in seconds
    subreddit_name,   \* analyze_company: its argument
    output_dir,       \* analyze_company: the directory name
    posts_df,         \* analyze_company: posts data frame
    comments_df,      \* analyze_company: comments data frame
    company_counts,   \* analyze_company: Counter(companies).most_common(10)
    signals,          \* analyze_company: the four signal strengths
    report,           \* content of the last report.txt written
    dirs,             \* file system: directories that exist
    files,            \* file system: <<directory, file name>> written
    log,              \* reddit_analysis.log: sequence of records
    error,            \* the exception in flight or that ended the process
    events,           \* history: steps executed by the current analyze_company
    execs,            \* history: one record per invocation of analyze_company
    df,               \* function harness: a data frame
    strength,         \* function harness: calculate_signal_strength per category
    fpc,              \* function harness: position
    counter,          \* Counter harness: the Counter being filled
    matches,          \* Counter harness: number of matches counted
    ranked,           \* Counter harness: most_common has been applied
    top               \* Counter harness: result of most_common(10)

vars == <<names, subreddit_names, idx, runs, pc, now, subreddit_name, output_dir,
          posts_df, comments_df, company_counts, signals, report, dirs, files,
          log, error, events, execs, df, strength, fpc,
          counter, matches, ranked, top>>

mainVars == <<names, subreddit_names, idx, runs, pc, now, subreddit_name,
              output_dir, posts_df, comments_df, company_counts, signals,
              report, dirs, files, log, error, events, execs>>
fnVars == <<df, strength, fpc>>
ctrVars == <<counter, matches, ranked, top>>

-----------------------------------------------------------------------------
(* Bounds of the model *)

MaxNamesLen == 3     \* longest 'names' configuration value
MaxTime == 1         \* last second of the clock
MaxRuns == 1         \* invocations of main by the scheduler
MaxRecords == 3      \* rows of a frame given to the pure functions
MaxTextLen == 2      \* longest text of such a row
MaxMatches == 12     \* company matches fed to the Counter

-----------------------------------------------------------------------------
(* Strings *)

Min(a, b) == IF a < b THEN a ELSE b

RECURSIVE StringsUpTo(_, _)
StringsUpTo(chars, n) ==
    IF n = 0 THEN {<<>>}
    ELSE LET shorter == StringsUpTo(chars, n - 1)
         IN shorter \cup {Append(s, c) : s \in shorter, c \in chars}

UpperChars == {"A", "C"}
LowerChars == {"a", "c", "o"}
Whitespace == {" "}

\* str.lower() on one character
LowerChar(c) ==
    CASE c = "A" -> "a"
      [] c = "C" -> "c"
      [] OTHER -> c

\* str.lower()
Lower(s) == [i \in 1..Len(s) |-> LowerChar(s[i])]

\* Python's `sub in s`
Contains(sub, s) ==
    \E i \in 0..(Len(s) - Len(sub)) : SubSeq(s, i + 1, i + Len(sub)) = sub

\* str.split(sep) for a one-character separator
RECURSIVE Split(_, _)
Split(s, sep) ==
    IF \E i \in 1..Len(s) : s[i] = sep
    THEN LET i == CHOOSE k \in 1..Len(s) :
                      s[k] = sep /\ \A j \in 1..(k - 1) : s[j] # sep
         IN <<SubSeq(s, 1, i - 1)>> \o Split(SubSeq(s, i + 1, Len(s)), sep)
    ELSE <<s>>

\* str.strip()
RECURSIVE Strip(_)
Strip(s) ==
    IF s = <<>> THEN s
    ELSE IF s[1] \in Whitespace THEN Strip(Tail(s))
    ELSE IF s[Len(s)] \in Whitespace THEN Strip(SubSeq(s, 1, Len(s) - 1))
    ELSE s

\* sep.join(list)
RECURSIVE Join(_, _)
Join(sep, list) ==
    IF list = <<>> THEN <<>>
    ELSE IF Len(list) = 1 THEN list[1]
    ELSE list[1] \o sep \o Join(sep, Tail(list))

-----------------------------------------------------------------------------
(* Rationals, for the true division of calculate_signal_strength *)

RECURSIVE Gcd(_, _)
Gcd(a, b) == IF b = 0 THEN a ELSE Gcd(b, a % b)

Rat(n, d) == LET g == Gcd(n, d) IN [num |-> n \div g, den |-> d \div g]
Zero == [num |-> 0, den |-> 1]
RatAdd(x, y) == Rat(x.num * y.den + y.num * x.den, x.den * y.den)

\* format(x, '.2f'): the nearest number of hundredths, ties to even
Format2f(x) ==
    LET scaled == x.num * 100
        q == scaled \div x.den
        r == scaled % x.den
    IN IF 2 * r < x.den THEN q
       ELSE IF 2 * r > x.den THEN q + 1
       ELSE IF q % 2 = 0 THEN q ELSE q + 1

-----------------------------------------------------------------------------
(* Keyword lexicons (lines 36-59), reduced to the model's alphabet: each    *)
(* is a list of distinct lower-case phrases, some containing a space, some  *)
(* overlapping, so that one text can match several keywords of one list.   *)

MERGER_KEYWORDS == << <<"c", "o">>, <<"o", "c">>, <<"c">> >>
LAYOFF_KEYWORDS == << <<"o", "o">>, <<"c", " ">> >>
REASSIGNMENT_KEYWORDS == << <<"c", "c">> >>
REDUCED_WORKLOAD_KEYWORDS == << <<" ", "o">>, <<"o">> >>

\* column_prefix -> keyword list, as paired in the calls of lines 152-160
Prefixes == {"merger", "layoff", "reassign", "reduced_work"}
KeywordsOf(prefix) ==
    CASE prefix = "merger" -> MERGER_KEYWORDS
      [] prefix = "layoff" -> LAYOFF_KEYWORDS
      [] prefix = "reassign" -> REASSIGNMENT_KEYWORDS
      [] prefix = "reduced_work" -> REDUCED_WORKLOAD_KEYWORDS

-----------------------------------------------------------------------------
(* Data frames: a set of column names, a row count and one series (a       *)
(* sequence of that length) per column.                                    *)

Col(name) == <<name, <<>>>>                       \* a column with a fixed name
KeywordCol(prefix, keyword) == <<prefix, keyword>>      \* f'{prefix}_{keyword}'
ScoreCol(prefix) == <<prefix, <<"s", "c", "o", "r", "e">>>>  \* f'{prefix}_score'

\* pd.DataFrame(records): the columns are the keys of the records, so a frame
\* made from an empty list has no column at all.
DataFrame(records, keys) ==
    IF records = <<>>
    THEN [columns |-> {}, len |-> 0, data |-> <<>>]
    ELSE [columns |-> {Col(k) : k \in keys},
          len |-> Len(records),
          data |-> [c \in {Col(k) : k \in keys} |->
                        [i \in 1..Len(records) |-> records[i][c[1]]]]]

\* df[column] raises KeyError when the frame has no such column
HasColumns(frame, cols) == cols \subseteq frame.columns

\* df[column] = series
SetColumn(frame, column, series) ==
    [columns |-> frame.columns \cup {column},
     len |-> frame.len,
     data |-> [c \in frame.columns \cup {column} |->
                  IF c = column THEN series ELSE frame.data[c]]]

RECURSIVE SumSeq(_)
SumSeq(s) == IF s = <<>> THEN 0 ELSE s[1] + SumSeq(Tail(s))

\* the lambda of line 99 without the two calls of lower()
KeywordFlagCaseSensitive(keyword, x) == IF Contains(keyword, x) THEN 1 ELSE 0

\* line 99, the lambda: 1 if keyword.lower() in x.lower() else 0
KeywordFlag(keyword, x) == IF Contains(Lower(keyword), Lower(x)) THEN 1 ELSE 0

\* lines 98-99: the loop over the keywords, from keyword number k on
RECURSIVE KeywordLoop(_, _, _, _, _)
KeywordLoop(frame, text_column, keywords, prefix, k) ==
    IF k > Len(keywords) THEN frame
    ELSE KeywordLoop(
             SetColumn(frame, KeywordCol(prefix, keywords[k]),
                       [i \in 1..frame.len |->
                            KeywordFlag(keywords[k], frame.data[text_column][i])]),
             text_column, keywords, prefix, k + 1)

\* keyword_analysis (lines 97-101); needs HasColumns(frame, {text_column})
keyword_analysis(frame, text_column, keywords, prefix) ==
    LET flagged == KeywordLoop(frame, text_column, keywords, prefix, 1)
    IN SetColumn(flagged, ScoreCol(prefix),
                 [i \in 1..flagged.len |->
                      SumSeq([k \in 1..Len(keywords) |->
                                  flagged.data[KeywordCol(prefix, keywords[k])][i]])])

\* sentiment_analysis (lines 93-95); the polarity values come from TextBlob and
\* are not modelled: only the column is.  Needs HasColumns(frame, {text_column})
sentiment_analysis(frame, text_column) ==
    SetColumn(frame, Col("sentiment"), [i \in 1..frame.len |-> 0])

\* calculate_signal_strength without the scaling to a percentage
SignalNoScale(frame, prefix) ==
    LET total_mentions == SumSeq(frame.data[ScoreCol(prefix)])
        total_posts == frame.len
    IN IF total_posts > 0 THEN Rat(total_mentions, total_posts) ELSE Zero

\* calculate_signal_strength (lines 129-134); needs the score column
calculate_signal_strength(frame, prefix) ==
    LET total_mentions == SumSeq(frame.data[ScoreCol(prefix)])
        total_posts == frame.len
    IN IF total_posts > 0 THEN Rat(total_mentions * 100, total_posts) ELSE Zero

-----------------------------------------------------------------------------
(* extract_companies (lines 124-127):                                      *)
(*   re.findall(r'\b[A-Z][a-z]+ (?:Inc|Corp|Co|Ltd)\b', text)              *)

Suffixes == << <<"I", "n", "c">>, <<"C", "o", "r", "p">>, <<"C", "o">>,
               <<"L", "t", "d">> >>

IsWordChar(text, i) ==
    i >= 1 /\ i <= Len(text) /\ text[i] \notin Whitespace

\* \b between positions i and i + 1
Boundary(text, i) == IsWordChar(text, i) # IsWordChar(text, i + 1)

\* last position of the longest run of lower-case letters starting at i
RECURSIVE LowerRunEnd(_, _)
LowerRunEnd(text, i) ==
    IF i + 1 <= Len(text) /\ text[i + 1] \in LowerChars
    THEN LowerRunEnd(text, i + 1) ELSE i

\* last position of the match that starts at position i, 0 when there is none
MatchEnd(text, i) ==
    IF /\ Boundary(text, i - 1)
       /\ text[i] \in UpperChars
       /\ i + 1 <= Len(text) /\ text[i + 1] \in LowerChars
    THEN LET j == LowerRunEnd(text, i + 1)
             fits(s) == /\ j + 1 <= Len(text) /\ text[j + 1] = " "
                        /\ j + 1 + Len(Suffixes[s]) <= Len(text)
                        /\ SubSeq(text, j + 2, j + 1 + Len(Suffixes[s])) = Suffixes[s]
                        /\ Boundary(text, j + 1 + Len(Suffixes[s]))
         IN IF \E s \in 1..Len(Suffixes) : fits(s)
            THEN LET s == CHOOSE s \in 1..Len(Suffixes) :
                              fits(s) /\ \A t \in 1..(s - 1) : ~fits(t)
                 IN j + 1 + Len(Suffixes[s])
            ELSE 0
    ELSE 0

\* findall: leftmost matches, not overlapping
RECURSIVE FindAll(_, _)
FindAll(text, i) ==
    IF i > Len(text) THEN <<>>
    ELSE LET e == MatchEnd(text, i)
         IN IF e > 0 THEN <<SubSeq(text, i, e)>> \o FindAll(text, e + 1)
            ELSE FindAll(text, i + 1)

extract_companies(text) == FindAll(text, 1)

-----------------------------------------------------------------------------
(* collections.Counter: elements in order of first insertion, each with    *)
(* its count.                                                              *)

\* one step of Counter's counting loop
CounterAdd(c, e) ==
    IF \E i \in 1..Len(c) : c[i].name = e
    THEN [i \in 1..Len(c) |->
              IF c[i].name = e THEN [name |-> e, count |-> c[i].count + 1] ELSE c[i]]
    ELSE Append(c, [name |-> e, count |-> 1])

RECURSIVE CounterFrom(_, _)
CounterFrom(c, list) ==
    IF list = <<>> THEN c ELSE CounterFrom(CounterAdd(c, list[1]), Tail(list))

Counter(list) == CounterFrom(<<>>, list)

\* most_common(n): sorted by count, largest first; the sort is stable, so
\* elements of equal count keep their insertion order
Before(c, i, j) == c[i].count > c[j].count \/ (c[i].count = c[j].count /\ i < j)

\* the same with ties resolved towards the element inserted last, as an
\* unstable selection could
most_common_unstable(c, n) ==
    LET after(i, j) == c[i].count > c[j].count \/ (c[i].count = c[j].count /\ i > j)
        rank(i) == Cardinality({j \in 1..Len(c) : after(j, i)})
    IN [r \in 1..Min(n, Len(c)) |-> c[CHOOSE i \in 1..Len(c) : rank(i) = r - 1]]

most_common(c, n) ==
    LET rank(i) == Cardinality({j \in 1..Len(c) : Before(c, j, i)})
    IN [r \in 1..Min(n, Len(c)) |-> c[CHOOSE i \in 1..Len(c) : rank(i) = r - 1]]

TopN == 10

-----------------------------------------------------------------------------
(* The collaborators: the configuration file and the forum *)

NameChars == {"a", ",", " "}

\* configparser strips the white space around a value
ConfigValues ==
    {s \in StringsUpTo(NameChars, MaxNamesLen) :
        s = <<>> \/ (s[1] \notin Whitespace /\ s[Len(s)] \notin Whitespace)}

T_merger == <<"C", "o">>
T_company == <<"C", "o", " ", "C", "o">>
T_other == <<"a", " ", "A", "a", " ", "C", "o">>

\* What a subreddit may hold: posts, each with its comments
Forums ==
    { <<>>,
      <<[title |-> T_merger, body |-> <<>>, comments |-> <<>>]>>,
      <<[title |-> T_merger, body |-> T_company, comments |-> <<T_other>>]>>,
      <<[title |-> T_company, body |-> <<"o", "c">>, comments |-> <<>>],
        [title |-> <<"a">>, body |-> T_other, comments |-> <<T_company, <<"o">>>>]>> }

num_posts == 100
num_comments == 100

RECURSIVE CommentsOf(_, _)
CommentsOf(posts, limit) ==
    IF posts = <<>> THEN <<>>
    ELSE LET cs == posts[1].comments
             kept == SubSeq(cs, 1, Min(limit, Len(cs)))
         IN [i \in 1..Len(kept) |-> [comment_body |-> kept[i], created |-> 0]]
            \o CommentsOf(Tail(posts), limit)

\* analyze_subreddit (lines 61-91) on a forum that answers with `content`
analyze_subreddit(content, post_limit, comment_limit) ==
    LET hot == SubSeq(content, 1, Min(post_limit, Len(content)))
        posts == [i \in 1..Len(hot) |->
                     [title |-> hot[i].title, body |-> hot[i].body, created |-> 0]]
        comments == CommentsOf(hot, comment_limit)
    IN [posts_df |-> DataFrame(posts, {"title", "body", "created"}),
        comments_df |-> DataFrame(comments, {"comment_body", "created"})]

-----------------------------------------------------------------------------
(* Names in the file system *)

Digits == <<"0", "1", "2", "3", "4", "5", "6", "7", "8", "9">>

\* datetime.now().strftime("%Y%m%d_%H%M%S"): fields of fixed width, one second
\* apart at the finest; the model renders the seconds field
Strftime(t) == <<Digits[((t \div 10) % 10) + 1], Digits[(t % 10) + 1]>>

\* line 137 with the forum name left out
OutputDirNoName(name, t) == <<"o", "u", "t", "p", "u", "t", "/">> \o <<"_">> \o Strftime(t)

\* line 137
OutputDir(name, t) ==
    <<"o", "u", "t", "p", "u", "t", "/">> \o name \o <<"_">> \o Strftime(t)

\* the title used as it is written
TitleAsIs(title) == title

\* title.lower() for the titles of lines 163-166
TitleLower(title) ==
    CASE title = "Posts" -> "posts"
      [] title = "Comments" -> "comments"
      [] title = "Merger Keywords (Posts)" -> "merger keywords (posts)"
      [] title = "Merger Keywords (Comments)" -> "merger keywords (comments)"

SentimentFile(title) == <<"sentiment", TitleLower(title)>>             \* line 109
KeywordFrequencyFile(title) == <<"keyword_frequency", TitleLower(title)>>  \* line 121
ReportFile == <<"report.txt", "">>
PostsCsv == <<"posts.csv", "">>
CommentsCsv == <<"comments.csv", "">>

-----------------------------------------------------------------------------
(* analyze_company (lines 136-205), one step per statement group, in the    *)
(* order of the source                                                     *)

CodeOrder ==
    <<"makedirs", "log_start", "fetch", "full_text", "sentiment_posts",
      "sentiment_comments", "keywords_posts", "keywords_comments",
      "plot_sentiment_posts", "plot_sentiment_comments", "plot_keywords_posts",
      "plot_keywords_comments", "extract_companies", "signal_strengths",
      "write_report", "log_complete", "posts_csv", "comments_csv">>

StepIndex(step) == CHOOSE i \in 1..Len(CodeOrder) : CodeOrder[i] = step

\* the order fetch, annotate, aggregate, extract entities, report: the signal
\* strengths and the entities before the charts
SuccAggregateFirst(step) ==
    CASE step = "keywords_comments" -> "signal_strengths"
      [] step = "signal_strengths" -> "extract_companies"
      [] step = "extract_companies" -> "plot_sentiment_posts"
      [] step = "plot_keywords_comments" -> "write_report"
      [] OTHER -> IF StepIndex(step) = Len(CodeOrder) THEN "return"
                  ELSE CodeOrder[StepIndex(step) + 1]

\* the statement after `step`; after the last one the call returns to main
Succ(step) ==
    IF StepIndex(step) = Len(CodeOrder) THEN "return"
    ELSE CodeOrder[StepIndex(step) + 1]

NoFrame == [columns |-> {}, len |-> 0, data |-> <<>>]
NoSignals == [p \in Prefixes |-> Zero]
NoReport == [name |-> <<>>, date |-> 0, signals |-> [p \in Prefixes |-> 0],
             companies |-> <<>>]

LogRecord(level, what) ==
    [asctime |-> now, levelname |-> level, message |-> what, name |-> subreddit_name]

\* a statement that completes
Done(step) ==
    /\ pc = step
    /\ pc' = Succ(step)
    /\ events' = Append(events, step)
    /\ error' = error

\* a statement that raises
Raise(step, exception) ==
    /\ pc = step
    /\ pc' = "raised"
    /\ events' = Append(events, step)
    /\ error' = exception

frameVars == <<posts_df, comments_df, company_counts, signals>>
fsVars == <<dirs, files, report>>
loopVars == <<names, subreddit_names, idx, runs, subreddit_name, now>>

\* lines 137-139
Makedirs ==
    /\ Done("makedirs")
    /\ output_dir' = OutputDir(subreddit_name, now)
    /\ dirs' = dirs \cup {output_dir'}
    /\ execs' = [execs EXCEPT ![Len(execs)].dir = output_dir',
                              ![Len(execs)].ts = now]
    /\ UNCHANGED <<loopVars, frameVars, files, report, log>>

\* line 139 raising OSError
MakedirsFails ==
    /\ Raise("makedirs", "OSError")
    /\ output_dir' = OutputDir(subreddit_name, now)
    /\ execs' = [execs EXCEPT ![Len(execs)].dir = output_dir',
                              ![Len(execs)].ts = now]
    /\ UNCHANGED <<loopVars, frameVars, fsVars, log>>

\* line 141
LogStart ==
    /\ Done("log_start")
    /\ log' = Append(log, LogRecord("INFO", "Starting analysis"))
    /\ UNCHANGED <<loopVars, frameVars, fsVars, output_dir, execs>>

\* line 142
Fetch ==
    /\ \E content \in Forums :
          LET got == analyze_subreddit(content, num_posts, num_comments)
          IN /\ posts_df' = got.posts_df
             /\ comments_df' = got.comments_df
    /\ Done("fetch")
    /\ UNCHANGED <<loopVars, company_counts, signals, fsVars, output_dir, execs, log>>

\* line 142: the API client raising
FetchFails ==
    /\ Raise("fetch", "FetchError")
    /\ UNCHANGED <<loopVars, frameVars, fsVars, output_dir, execs, log>>

\* line 145
FullText ==
    /\ pc = "full_text"
    /\ IF HasColumns(posts_df, {Col("title"), Col("body")})
       THEN /\ Done("full_text")
            /\ posts_df' = SetColumn(posts_df, Col("full_text"),
                               [i \in 1..posts_df.len |->
                                    posts_df.data[Col("title")][i] \o <<" ">>
                                        \o posts_df.data[Col("body")][i]])
       ELSE /\ Raise("full_text", "KeyError")
            /\ posts_df' = posts_df
    /\ UNCHANGED <<loopVars, comments_df, company_counts, signals, fsVars,
                   output_dir, execs, log>>

\* line 148
SentimentPosts ==
    /\ pc = "sentiment_posts"
    /\ IF HasColumns(posts_df, {Col("full_text")})
       THEN /\ Done("sentiment_posts")
            /\ posts_df' = sentiment_analysis(posts_df, Col("full_text"))
       ELSE /\ Raise("sentiment_posts", "KeyError")
            /\ posts_df' = posts_df
    /\ UNCHANGED <<loopVars, comments_df, company_counts, signals, fsVars,
                   output_dir, execs, log>>

\* line 149
SentimentComments ==
    /\ pc = "sentiment_comments"
    /\ IF HasColumns(comments_df, {Col("comment_body")})
       THEN /\ Done("sentiment_comments")
            /\ comments_df' = sentiment_analysis(comments_df, Col("comment_body"))
       ELSE /\ Raise("sentiment_comments", "KeyError")
            /\ comments_df' = comments_df
    /\ UNCHANGED <<loopVars, posts_df, company_counts, signals, fsVars,
                   output_dir, execs, log>>

\* the four calls of keyword_analysis on one frame, in the order of the source
AllKeywords(frame, text_column) ==
    keyword_analysis(
      keyword_analysis(
        keyword_analysis(
          keyword_analysis(frame, text_column, MERGER_KEYWORDS, "merger"),
          text_column, LAYOFF_KEYWORDS, "layoff"),
        text_column, REASSIGNMENT_KEYWORDS, "reassign"),
      text_column, REDUCED_WORKLOAD_KEYWORDS, "reduced_work")

\* lines 152-155
KeywordsPosts ==
    /\ pc = "keywords_posts"
    /\ IF HasColumns(posts_df, {Col("full_text")})
       THEN /\ Done("keywords_posts")
            /\ posts_df' = AllKeywords(posts_df, Col("full_text"))
       ELSE /\ Raise("keywords_posts", "KeyError")
            /\ posts_df' = posts_df
    /\ UNCHANGED <<loopVars, comments_df, company_counts, signals, fsVars,
                   output_dir, execs, log>>

\* lines 157-160
KeywordsComments ==
    /\ pc = "keywords_comments"
    /\ IF HasColumns(comments_df, {Col("comment_body")})
       THEN /\ Done("keywords_comments")
            /\ comments_df' = AllKeywords(comments_df, Col("comment_body"))
       ELSE /\ Raise("keywords_comments", "KeyError")
            /\ comments_df' = comments_df
    /\ UNCHANGED <<loopVars, posts_df, company_counts, signals, fsVars,
                   output_dir, execs, log>>

\* a plotting call: reads `cols` of `frame`, then saves `file`
Plot(step, frame, cols, file) ==
    /\ pc = step
    /\ IF HasColumns(frame, cols)
       THEN /\ Done(step)
            /\ files' = files \cup {<<output_dir, file>>}
       ELSE /\ Raise(step, "KeyError")
            /\ files' = files
    /\ UNCHANGED <<loopVars, frameVars, dirs, report, output_dir, execs, log>>

KeywordCols(prefix, keywords) ==
    {KeywordCol(prefix, keywords[k]) : k \in 1..Len(keywords)}

\* line 163
PlotSentimentPosts ==
    Plot("plot_sentiment_posts", posts_df, {Col("created"), Col("sentiment")},
         SentimentFile("Posts"))

\* line 164
PlotSentimentComments ==
    Plot("plot_sentiment_comments", comments_df, {Col("created"), Col("sentiment")},
         SentimentFile("Comments"))

\* line 165
PlotKeywordsPosts ==
    Plot("plot_keywords_posts", posts_df, KeywordCols("merger", MERGER_KEYWORDS),
         KeywordFrequencyFile("Merger Keywords (Posts)"))

\* line 166
PlotKeywordsComments ==
    Plot("plot_keywords_comments", comments_df, KeywordCols("merger", MERGER_KEYWORDS),
         KeywordFrequencyFile("Merger Keywords (Comments)"))

\* lines 169-171
ExtractCompanies ==
    /\ pc = "extract_companies"
    /\ IF /\ HasColumns(posts_df, {Col("full_text")})
          /\ HasColumns(comments_df, {Col("comment_body")})
       THEN LET all_text == Join(<<" ">>, posts_df.data[Col("full_text")]) \o <<" ">>
                              \o Join(<<" ">>, comments_df.data[Col("comment_body")])
                companies == extract_companies(all_text)
            IN /\ Done("extract_companies")
               /\ company_counts' = most_common(Counter(companies), TopN)
       ELSE /\ Raise("extract_companies", "KeyError")
            /\ company_counts' = company_counts
    /\ UNCHANGED <<loopVars, posts_df, comments_df, signals, fsVars, output_dir,
                   execs, log>>

\* lines 174-177
SignalStrengths ==
    /\ pc = "signal_strengths"
    /\ IF /\ HasColumns(posts_df, {ScoreCol(p) : p \in Prefixes})
          /\ HasColumns(comments_df, {ScoreCol(p) : p \in Prefixes})
       THEN /\ Done("signal_strengths")
            /\ signals' = [p \in Prefixes |->
                              RatAdd(calculate_signal_strength(posts_df, p),
                                     calculate_signal_strength(comments_df, p))]
       ELSE /\ Raise("signal_strengths", "KeyError")
            /\ signals' = signals
    /\ UNCHANGED <<loopVars, posts_df, comments_df, company_counts, fsVars,
                   output_dir, execs, log>>

\* lines 180-199
WriteReport ==
    /\ Done("write_report")
    /\ report' = [name |-> subreddit_name, date |-> now,
                  signals |-> [p \in Prefixes |-> Format2f(signals[p])],
                  companies |-> company_counts]
    /\ files' = files \cup {<<output_dir, ReportFile>>}
    /\ UNCHANGED <<loopVars, frameVars, dirs, output_dir, execs, log>>

\* line 201
LogComplete ==
    /\ Done("log_complete")
    /\ log' = Append(log, LogRecord("INFO", "Analysis complete"))
    /\ UNCHANGED <<loopVars, frameVars, fsVars, output_dir, execs>>

\* line 204
SavePosts ==
    /\ Done("posts_csv")
    /\ files' = files \cup {<<output_dir, PostsCsv>>}
    /\ UNCHANGED <<loopVars, frameVars, dirs, report, output_dir, execs, log>>

\* line 205
SaveComments ==
    /\ Done("comments_csv")
    /\ files' = files \cup {<<output_dir, CommentsCsv>>}
    /\ UNCHANGED <<loopVars, frameVars, dirs, report, output_dir, execs, log>>

WriteSteps ==
    {"plot_sentiment_posts", "plot_sentiment_comments", "plot_keywords_posts",
     "plot_keywords_comments", "write_report", "posts_csv", "comments_csv"}

\* savefig, open/write or to_csv raising OSError
WriteFails ==
    /\ pc \in WriteSteps
    /\ Raise(pc, "OSError")
    /\ UNCHANGED <<loopVars, frameVars, fsVars, output_dir, execs, log>>

-----------------------------------------------------------------------------
(* main (lines 207-210) and the scheduler loop (lines 212-216) *)

\* schedule.run_pending() finds the job due and calls main: line 208
RunPending ==
    /\ pc = "idle"
    /\ runs < MaxRuns
    /\ runs' = runs + 1
    /\ subreddit_names' = Split(names, ",")
    /\ idx' = 1
    /\ pc' = "loop"
    /\ UNCHANGED <<names, now, subreddit_name, output_dir, frameVars, fsVars, log,
                   error, events, execs>>

\* lines 209-210: the loop takes the next entry and calls analyze_company
MainNext ==
    /\ pc = "loop"
    /\ idx <= Len(subreddit_names)
    /\ subreddit_name' = Strip(subreddit_names[idx])
    /\ pc' = "makedirs"
    /\ events' = <<>>
    /\ execs' = Append(execs, [run |-> runs, pos |-> idx, name |-> subreddit_name',
                               dir |-> <<>>, ts |-> now, done |-> FALSE])
    /\ posts_df' = NoFrame
    /\ comments_df' = NoFrame
    /\ company_counts' = <<>>
    /\ signals' = NoSignals
    /\ output_dir' = <<>>
    /\ UNCHANGED <<names, subreddit_names, idx, runs, now, fsVars, log, error>>

\* analyze_company returns; the loop moves on
Return ==
    /\ pc = "return"
    /\ pc' = "loop"
    /\ idx' = idx + 1
    /\ execs' = [execs EXCEPT ![Len(execs)].done = TRUE]
    /\ UNCHANGED <<names, subreddit_names, runs, now, subreddit_name, output_dir,
                   frameVars, fsVars, log, error, events>>

\* the loop is exhausted: main returns to the scheduler loop
MainReturn ==
    /\ pc = "loop"
    /\ idx > Len(subreddit_names)
    /\ pc' = "sleep"
    /\ UNCHANGED <<names, subreddit_names, idx, runs, now, subreddit_name,
                   output_dir, frameVars, fsVars, log, error, events, execs>>

\* line 216: time.sleep(60)
Sleep ==
    /\ pc = "sleep"
    /\ now < MaxTime
    /\ now' = now + 1
    /\ pc' = "idle"
    /\ UNCHANGED <<names, subreddit_names, idx, runs, subreddit_name, output_dir,
                   frameVars, fsVars, log, error, events, execs>>

\* what a try/except around line 210 would do: go on with the next forum
PropagateIsolated ==
    /\ pc = "raised"
    /\ pc' = "loop"
    /\ idx' = idx + 1
    /\ UNCHANGED <<names, subreddit_names, runs, now, subreddit_name, output_dir,
                   frameVars, fsVars, log, error, events, execs>>

\* No try/except anywhere: an exception leaves analyze_company, main and the
\* scheduler loop, and the interpreter exits.
Propagate ==
    /\ pc = "raised"
    /\ pc' = "exited"
    /\ UNCHANGED <<names, subreddit_names, idx, runs, now, subreddit_name,
                   output_dir, frameVars, fsVars, log, error, events, execs>>

\* The clock advances while main runs.  The model lets it advance between two
\* invocations of analyze_company, just before line 137 reads it: the reads of
\* one invocation (lines 137, 141, 182, 201) see the same second.
Tick ==
    /\ pc = "makedirs"
    /\ now < MaxTime
    /\ now' = now + 1
    /\ UNCHANGED <<names, subreddit_names, idx, runs, pc, subreddit_name,
                   output_dir, frameVars, fsVars, log, error, events, execs>>

HarnessInit ==
    /\ df = NoFrame /\ strength = NoSignals /\ fpc = "off"
    /\ counter = <<>> /\ matches = 0 /\ ranked = FALSE /\ top = <<>>

MainInit ==
    /\ subreddit_names = <<>>
    /\ idx = 1
    /\ runs = 0
    /\ pc = "idle"
    /\ now = 0
    /\ subreddit_name = <<>>
    /\ output_dir = <<>>
    /\ posts_df = NoFrame
    /\ comments_df = NoFrame
    /\ company_counts = <<>>
    /\ signals = NoSignals
    /\ report = NoReport
    /\ dirs = {}
    /\ files = {}
    /\ log = <<>>
    /\ error = "none"
    /\ events = <<>>
    /\ execs = <<>>

Init ==
    /\ names \in ConfigValues
    /\ MainInit
    /\ HarnessInit

Next ==
    \/ (RunPending /\ UNCHANGED <<fnVars, ctrVars>>)
    \/ (MainNext /\ UNCHANGED <<fnVars, ctrVars>>)
    \/ (Makedirs /\ UNCHANGED <<fnVars, ctrVars>>)
    \/ (MakedirsFails /\ UNCHANGED <<fnVars, ctrVars>>)
    \/ (LogStart /\ UNCHANGED <<fnVars, ctrVars>>)
    \/ (Fetch /\ UNCHANGED <<fnVars, ctrVars>>)
    \/ (FetchFails /\ UNCHANGED <<fnVars, ctrVars>>)
    \/ (FullText /\ UNCHANGED <<fnVars, ctrVars>>)
    \/ (SentimentPosts /\ UNCHANGED <<fnVars, ctrVars>>)
    \/ (SentimentComments /\ UNCHANGED <<fnVars, ctrVars>>)
    \/ (KeywordsPosts /\ UNCHANGED <<fnVars, ctrVars>>)
    \/ (KeywordsComments /\ UNCHANGED <<fnVars, ctrVars>>)
    \/ (PlotSentimentPosts /\ UNCHANGED <<fnVars, ctrVars>>)
    \/ (PlotSentimentComments /\ UNCHANGED <<fnVars, ctrVars>>)
    \/ (PlotKeywordsPosts /\ UNCHANGED <<fnVars, ctrVars>>)
    \/ (PlotKeywordsComments /\ UNCHANGED <<fnVars, ctrVars>>)
    \/ (ExtractCompanies /\ UNCHANGED <<fnVars, ctrVars>>)
    \/ (SignalStrengths /\ UNCHANGED <<fnVars, ctrVars>>)
    \/ (WriteReport /\ UNCHANGED <<fnVars, ctrVars>>)
    \/ (LogComplete /\ UNCHANGED <<fnVars, ctrVars>>)
    \/ (SavePosts /\ UNCHANGED <<fnVars, ctrVars>>)
    \/ (SaveComments /\ UNCHANGED <<fnVars, ctrVars>>)
    \/ (WriteFails /\ UNCHANGED <<fnVars, ctrVars>>)
    \/ (Return /\ UNCHANGED <<fnVars, ctrVars>>)
    \/ (MainReturn /\ UNCHANGED <<fnVars, ctrVars>>)
    \/ (Sleep /\ UNCHANGED <<fnVars, ctrVars>>)
    \/ (Propagate /\ UNCHANGED <<fnVars, ctrVars>>)
    \/ (Tick /\ UNCHANGED <<fnVars, ctrVars>>)

Spec == Init /\ [][Next]_vars

-----------------------------------------------------------------------------
(* keyword_analysis and calculate_signal_strength applied to any frame with *)
(* a text column, and to the frame without columns that pd.DataFrame([])    *)
(* builds.                                                                  *)

TextChars == {"C", "o"}
Texts == StringsUpTo(TextChars, MaxTextLen)

RECURSIVE SeqsUpTo(_, _)
SeqsUpTo(S, n) ==
    IF n = 0 THEN {<<>>}
    ELSE LET shorter == SeqsUpTo(S, n - 1)
         IN shorter \cup {Append(q, x) : q \in shorter, x \in S}

\* pd.DataFrame({'text': series}): the column exists even when series is empty
FrameOfColumn(name, series) ==
    [columns |-> {Col(name)}, len |-> Len(series),
     data |-> [c \in {Col(name)} |-> series]]

InputFrames ==
    {FrameOfColumn("text", series) : series \in SeqsUpTo(Texts, MaxRecords)}
        \cup {DataFrame(<<>>, {"text"})}

\* lines 152-155 on the frame
Annotate ==
    /\ fpc = "input"
    /\ IF HasColumns(df, {Col("text")})
       THEN /\ df' = AllKeywords(df, Col("text"))
            /\ fpc' = "annotated"
       ELSE /\ df' = df
            /\ fpc' = "annotate_raised"
    /\ UNCHANGED strength

\* lines 174-177 on the frame, one call per category
Aggregate ==
    /\ fpc = "annotated"
    /\ IF HasColumns(df, {ScoreCol(p) : p \in Prefixes})
       THEN /\ strength' = [p \in Prefixes |-> calculate_signal_strength(df, p)]
            /\ fpc' = "aggregated"
       ELSE /\ strength' = strength
            /\ fpc' = "aggregate_raised"
    /\ UNCHANGED df

FnInit ==
    /\ names = <<>>
    /\ MainInit
    /\ df \in InputFrames
    /\ strength = NoSignals
    /\ fpc = "input"
    /\ counter = <<>> /\ matches = 0 /\ ranked = FALSE /\ top = <<>>

FnNext ==
    \/ (Annotate /\ UNCHANGED <<mainVars, ctrVars>>)
    \/ (Aggregate /\ UNCHANGED <<mainVars, ctrVars>>)

SpecFn == FnInit /\ [][FnNext]_vars

-----------------------------------------------------------------------------
(* Counter(companies).most_common(10) (line 171) on any sequence of        *)
(* matches.  The result depends on the names only through their equality,  *)
(* so the k-th distinct name to appear is always Entity(k).                *)

Entity(k) == <<"N", k>>

\* Counter's loop counts one more match
CountMatch ==
    /\ ~ranked
    /\ matches < MaxMatches
    /\ \E k \in 1..(Len(counter) + 1) : counter' = CounterAdd(counter, Entity(k))
    /\ matches' = matches + 1
    /\ UNCHANGED <<ranked, top>>

MostCommon ==
    /\ ~ranked
    /\ top' = most_common(counter, TopN)
    /\ ranked' = TRUE
    /\ UNCHANGED <<counter, matches>>

CtrInit ==
    /\ names = <<>>
    /\ MainInit
    /\ df = NoFrame /\ strength = NoSignals /\ fpc = "off"
    /\ counter = <<>> /\ matches = 0 /\ ranked = FALSE /\ top = <<>>

CtrNext ==
    \/ (CountMatch /\ UNCHANGED <<mainVars, fnVars>>)
    \/ (MostCommon /\ UNCHANGED <<mainVars, fnVars>>)

SpecCtr == CtrInit /\ [][CtrNext]_vars

-----------------------------------------------------------------------------
(* Properties *)

Failed == pc \in {"raised", "exited"}
Range(q) == {q[i] : i \in 1..Len(q)}
FilesIn(dir) == {f[2] : f \in {g \in files : g[1] = dir}}
\* the current invocation of analyze_company has completed statement `step`
StepDone(step) ==
    \/ Len(events) > StepIndex(step)
    \/ Len(events) = StepIndex(step) /\ ~Failed

\* C1: when the 'names' value lists no forum, main completes without raising,
\* never invokes analyze_company and creates no output directory.
C1_NoForumNoWork ==
    names = <<>> => (execs = <<>> /\ dirs = {} /\ ~Failed)

\* C2: when the fetch for a forum returns zero posts, analyze_company does
\* not fail on the empty frames: it completes, and report.txt holds four
\* signal strengths of 0 and an empty company list.
C2_EmptyFetchCompletes ==
    (subreddit_name # <<>> /\ StepDone("fetch") /\ posts_df.len = 0) =>
        /\ error # "KeyError"
        /\ StepDone("write_report")
              => (report.companies = <<>> /\ \A p \in Prefixes : report.signals[p] = 0)

\* the sum of the category scores of all rows, counted from the flags
TotalFlags(frame, p) ==
    LET kws == KeywordsOf(p)
    IN SumSeq([i \in 1..frame.len |->
                  Cardinality({k \in 1..Len(kws) :
                                   frame.data[KeywordCol(p, kws[k])][i] = 1})])

OccursIgnoringCase(keyword, text) ==
    \E off \in 0..(Len(text) - Len(keyword)) :
        \A j \in 1..Len(keyword) : LowerChar(text[off + j]) = LowerChar(keyword[j])

\* C4: after keyword_analysis every keyword flag of every record is 0 or 1,
\* it is 1 exactly when the keyword occurs in the record's text ignoring
\* case, and the record's score is the number of keywords of the list whose
\* flag is 1.
C4_KeywordFlags ==
    fpc \in {"annotated", "aggregated"} =>
        \A p \in Prefixes : \A i \in 1..df.len :
            LET kws == KeywordsOf(p)
                flag(k) == df.data[KeywordCol(p, kws[k])][i]
            IN /\ \A k \in 1..Len(kws) :
                     /\ flag(k) \in {0, 1}
                     /\ flag(k) = 1 <=> OccursIgnoringCase(kws[k], df.data[Col("text")][i])
               /\ df.data[ScoreCol(p)][i]
                     = Cardinality({k \in 1..Len(kws) : flag(k) = 1})

\* a record whose upper-case text matches two of the three merger keywords
C4_Witness ==
    /\ fpc = "annotated"
    /\ \E i \in 1..df.len :
          /\ df.data[Col("text")][i] = <<"C", "o">>
          /\ df.data[ScoreCol("merger")][i] = 2
          /\ df.data[KeywordCol("merger", <<"o", "c">>)][i] = 0


\* the invocations of analyze_company made by run r, in order
ExecsOfRun(r) == SelectSeq(execs, LAMBDA e : e.run = r)

\* C5: within one run of main the forums are processed one after another in
\* configured order, each list entry at most once, and a failure while
\* processing a forum propagates out of main, so that no later entry is ever
\* started.
C5_SequentialNoRetry ==
    /\ \A r \in 1..runs :
          LET es == ExecsOfRun(r)
              configured == Split(names, ",")
          IN /\ Len(es) <= Len(configured)
             /\ \A i \in 1..Len(es) :
                   es[i].pos = i /\ es[i].name = Strip(configured[i])
    /\ \A i \in 1..(Len(execs) - 1) : execs[i].done
    /\ Failed => (execs # <<>> /\ ~execs[Len(execs)].done
                    /\ execs[Len(execs)].pos = idx)
    /\ pc = "exited" => error # "none"

\* the second of three configured forums failed and the process exited with
\* the third never started
C5_Witness ==
    /\ pc = "exited"
    /\ Len(execs) = 2
    /\ execs[1].done
    /\ Len(subreddit_names) = 3

\* C6: every failure that ends a run is recorded in the log, with timestamp
\* and severity, before the process exits.
C6_FailureLogged ==
    pc = "exited" =>
        \E i \in 1..Len(log) :
            /\ log[i].levelname \in {"WARNING", "ERROR", "CRITICAL"}
            /\ log[i].name = subreddit_name

\* C7: most_common(10) returns min(10, number of distinct names) entries of
\* the Counter, distinct, each with its count, in order of non-increasing
\* count; among equal counts the name first seen earlier comes first and is
\* the one kept at the cut-off.
PositionIn(c, e) == CHOOSE i \in 1..Len(c) : c[i] = e

C7_TopTen ==
    /\ SumSeq([i \in 1..Len(counter) |-> counter[i].count]) = matches
    /\ \A i, j \in 1..Len(counter) : counter[i].name = counter[j].name => i = j
    /\ ranked =>
          /\ Len(top) = Min(10, Len(counter))
          /\ \A r \in 1..Len(top) : top[r] \in Range(counter)
          /\ \A r, q \in 1..Len(top) : top[r].name = top[q].name => r = q
          /\ \A r \in 1..(Len(top) - 1) :
                \/ top[r].count > top[r + 1].count
                \/ /\ top[r].count = top[r + 1].count
                   /\ PositionIn(counter, top[r]) < PositionIn(counter, top[r + 1])
          /\ \A e \in Range(counter) \ Range(top) : \A r \in 1..Len(top) :
                \/ top[r].count > e.count
                \/ /\ top[r].count = e.count
                   /\ PositionIn(counter, top[r]) < PositionIn(counter, e)

\* more than 10 names, a tie across the cut-off, and a later name of higher
\* count ranked first
C7_Witness ==
    /\ ranked
    /\ Len(counter) > 10
    /\ Len(top) = 10
    /\ top[1].count > 1
    /\ PositionIn(counter, top[1]) > 1
    /\ \E e \in Range(counter) \ Range(top) : e.count = top[10].count

\* the artifacts of one completed invocation (lines 163-166, 198, 204, 205)
Artifacts ==
    {<<"sentiment", "posts">>, <<"sentiment", "comments">>,
     <<"keyword_frequency", "merger keywords (posts)">>,
     <<"keyword_frequency", "merger keywords (comments)">>,
     <<"report.txt", "">>, <<"posts.csv", "">>, <<"comments.csv", "">>}

\* C8 as stated: a completed invocation has written 8 keyword-frequency
\* charts (4 categories x 2 record sets), 2 sentiment charts, report.txt,
\* posts.csv and comments.csv.
C8_EightKeywordCharts ==
    \A i \in 1..Len(execs) :
        execs[i].done =>
            /\ Cardinality({f \in FilesIn(execs[i].dir) : f[1] = "keyword_frequency"}) = 8
            /\ Cardinality({f \in FilesIn(execs[i].dir) : f[1] = "sentiment"}) = 2
            /\ {<<"report.txt", "">>, <<"posts.csv", "">>, <<"comments.csv", "">>}
                  \subseteq FilesIn(execs[i].dir)

\* C8 amended: a completed invocation has written exactly 2 keyword-frequency
\* charts, those of the merger category for posts and for comments, 2
\* sentiment charts, report.txt, posts.csv and comments.csv.
C8_MergerChartsOnly ==
    \A i \in 1..Len(execs) :
        execs[i].done =>
            /\ execs[i].dir \in dirs
            /\ FilesIn(execs[i].dir) = Artifacts

\* an invocation has completed and its directory holds the seven artifacts
C8_Witness ==
    \E i \in 1..Len(execs) :
        execs[i].done /\ Cardinality(FilesIn(execs[i].dir)) = 7

\* the invocations that have computed their directory name
Named == {i \in 1..Len(execs) : execs[i].dir # <<>>}

\* C9 as stated: any two invocations of analyze_company (here: for forums
\* with a name) use different output directories.
C9_DistinctDirs ==
    \A i, j \in Named :
        (i # j /\ execs[i].name # <<>> /\ execs[j].name # <<>>)
            => execs[i].dir # execs[j].dir

\* C9 amended: two invocations use the same output directory exactly when
\* they are for the same forum name and read the clock in the same second.
C9_DistinctUnlessSameNameAndSecond ==
    \A i, j \in Named :
        execs[i].dir = execs[j].dir
            <=> (execs[i].name = execs[j].name /\ execs[i].ts = execs[j].ts)

\* two invocations in the same second for different forums, and two for the
\* same forum in different seconds, each with a directory of its own
C9_Witness ==
    /\ \E i, j \in Named :
          /\ execs[i].name # execs[j].name /\ execs[i].ts = execs[j].ts
          /\ execs[i].dir # execs[j].dir
          /\ {execs[i].dir, execs[j].dir} \subseteq dirs
    /\ \E i, j \in Named :
          /\ execs[i].name = execs[j].name /\ execs[i].ts # execs[j].ts
          /\ execs[i].dir # execs[j].dir

\* the stage of the pipeline a statement belongs to; 0 for logging and for
\* the creation of the directory
Stage(step) ==
    CASE step = "fetch" -> 1
      [] step \in {"full_text", "sentiment_posts", "keywords_posts"} -> 2
      [] step \in {"sentiment_comments", "keywords_comments"} -> 3
      [] step = "signal_strengths" -> 4
      [] step = "extract_companies" -> 5
      [] step \in WriteSteps -> 6
      [] OTHER -> 0

====
